---- MODULE Spec2Model ----
(***************************************************************************)
(* Model of src/bot.py: the reminder table `reminders`, the APScheduler   *)
(* job table of `scheduler`, the snapshot file reminders.json, the        *)
(* per-chat conversational state `user_states`, the coroutines handed to  *)
(* the event loop by send_reminder_sync, and the handlers                 *)
(* handle_callback / handle_user_input / load_reminders.                  *)
(*                                                                         *)
(* Strings are sequences of tokens (a token is a substring that the code  *)
(* never looks inside), so concatenation, split and equality of strings   *)
(* are computed, not assumed.  Instants are minutes since 00:00 of day 0  *)
(* in the Europe/Moscow zone (no DST).                                    *)
(***************************************************************************)
EXTENDS Integers, Sequences, FiniteSets, TLC

\* ------------------------------------------------------------------ bounds
\* Number of handler invocations and restarts explored in one behaviour.
MaxOps == 4
\* Last wall-clock hour (counted from 00:00 of day 0) the clock may reach.
MaxHour == 26
\* Coroutines handed to the event loop and not yet run.
MaxInflight == 1
\* Tokens of the file a failing write gets out before it stops.
MaxWritten == 1

\* ------------------------------------------------------- program constants
MinutesPerHour == 60
HoursPerDay == 24
\* IntervalTrigger(hours=1, ...)
IntervalHours == 1
\* timedelta(days=1)
RollDays == 1
\* the wall-clock hour of the first state
StartHour == 22

DayLen == HoursPerDay * MinutesPerHour
Interval == IntervalHours * MinutesPerHour
MaxClock == MaxHour * MinutesPerHour
\* the clock of the first state: StartHour:00 of day 0
StartMinute == StartHour * MinutesPerHour
\* misfire_grace_time of the scheduler's default job settings is one second;
\* at one-minute resolution a run is missed once its time lies in the past
MisfireGrace == 0

\* ------------------------------------------------------------------ inputs
Owners == {1, 2}
NameA == <<"A">>
Namea == <<"a">>
\* a name that spells the suffix the repeat branch appends to a job id
NameX == <<"A", "_repeat_", "1335">>
Names == {NameA, Namea, NameX}

\* later than the first state's time of day / earlier / hour out of range /
\* minute out of range / no colon
T2230 == <<"22", ":", "30">>
T0100 == <<"01", ":", "00">>
T2500 == <<"25", ":", "00">>
T2261 == <<"22", ":", "61">>
TNoColon == <<"2230">>
TimeStrs == {T2230, T0100, T2500, T2261, TNoColon}

DelayStrs == {"15", "60", "0", "-5", "soon"}

\* --------------------------------------------------------- string helpers
\* int(s) of a one-token string; the tokens int() accepts, and their values
IntTokens == {"00", "01", "22", "25", "30", "61", "2230", "15", "60", "0", "-5"}

IntOfToken(tok) ==
    CASE tok = "00" -> 0
      [] tok = "01" -> 1
      [] tok = "22" -> 22
      [] tok = "25" -> 25
      [] tok = "30" -> 30
      [] tok = "61" -> 61
      [] tok = "2230" -> 2230
      [] tok = "15" -> 15
      [] tok = "60" -> 60
      [] tok = "0" -> 0
      [] tok = "-5" -> 0 - 5

\* str.lower() token by token
LowerToken(tok) == IF tok = "A" THEN "a" ELSE tok

Lower(s) == [i \in 1..Len(s) |-> LowerToken(s[i])]

\* s.split(":"): the pieces between the ":" tokens
RECURSIVE SplitColon(_)
SplitColon(s) ==
    IF \A i \in 1..Len(s) : s[i] # ":"
    THEN <<s>>
    ELSE LET p == CHOOSE i \in 1..Len(s) :
                      s[i] = ":" /\ \A j \in 1..(i - 1) : s[j] # ":"
         IN  <<SubSeq(s, 1, p - 1)>> \o SplitColon(SubSeq(s, p + 1, Len(s)))

\* int(piece) succeeds
IsInt(piece) == Len(piece) = 1 /\ piece[1] \in IntTokens

\* a faulty TimeOk: the ranges of the hour and of the minute are not tested
TimeOkAnyRange(time_str) ==
    LET parts == SplitColon(time_str)
    IN  /\ Len(parts) = 2
        /\ IsInt(parts[1])
        /\ IsInt(parts[2])

\* hour, minute = map(int, time_str.split(":")); time(hour, minute):
\* ValueError unless two integer pieces in range
TimeOk(time_str) ==
    LET parts == SplitColon(time_str)
    IN  /\ Len(parts) = 2
        /\ IsInt(parts[1])
        /\ IsInt(parts[2])
        /\ IntOfToken(parts[1][1]) \in 0..(HoursPerDay - 1)
        /\ IntOfToken(parts[2][1]) \in 0..(MinutesPerHour - 1)

\* minutes after midnight of time(hour, minute)
MinuteOfDay(time_str) ==
    LET parts == SplitColon(time_str)
    IN  IntOfToken(parts[1][1]) * MinutesPerHour + IntOfToken(parts[2][1])

\* datetime.combine(now.date(), time(hour, minute))
CombineToday(now, time_str) == (now \div DayLen) * DayLen + MinuteOfDay(time_str)

\* a faulty first_time: `if first_time <= now` moves a time of day that is
\* the present minute to the next day
FirstTimeStrictlyLater(now, time_str) ==
    IF CombineToday(now, time_str) <= now
    THEN CombineToday(now, time_str) + RollDays * DayLen
    ELSE CombineToday(now, time_str)

\* first_time of the add branch and of load_reminders
FirstTime(now, time_str) ==
    IF CombineToday(now, time_str) < now
    THEN CombineToday(now, time_str) + RollDays * DayLen
    ELSE CombineToday(now, time_str)

\* a faulty next_time: the next occurrence of the time of day, which is
\* today's when that is still to come
NextTimeNextOccurrence(now, time_str) == FirstTime(now, time_str)

\* next_time of the accepted branches
NextTime(now, time_str) == CombineToday(now, time_str) + RollDays * DayLen

\* f"{chat_id}_{name}"
JobId(chat_id, name) == <<ToString(chat_id), "_">> \o name

\* f"{job_id}_repeat_{run_time.timestamp()}"
RepeatJobId(chat_id, name, run_time) ==
    JobId(chat_id, name) \o <<"_repeat_", ToString(run_time)>>

\* f"{name.lower()} <accepted-word>" (the Russian word of line 257, here in
\* Latin letters) against text.lower()
AckText(name) == name \o <<" prinyal">>

\* ------------------------------------------------------------------ state
VARIABLES
    clock,        \* datetime.now(moscow_tz), in minutes
    reminders,    \* the dict `reminders`, in insertion order
    jobs,         \* the job table of `scheduler`
    disk,         \* the file SAVE_FILE
    user_states,  \* the dict `user_states` (absent chat: NoState)
    inflight,     \* coroutines send_reminder_sync handed to the event loop
    nops,         \* handler invocations and restarts so far
    last,         \* the step just taken and its outcome
    acked         \* the latest acknowledgement, until a later operation on
                  \* its reminder or a restart (history)

vars == <<clock, reminders, jobs, disk, user_states, inflight, nops, last,
          acked>>

Key(r) == <<r.chat_id, r.name>>

\* `key in reminders`
HasKey(rems, chat_id, name) ==
    \E i \in 1..Len(rems) : Key(rems[i]) = <<chat_id, name>>

IndexOf(rems, chat_id, name) ==
    CHOOSE i \in 1..Len(rems) : Key(rems[i]) = <<chat_id, name>>

\* reminders[key]
Get(rems, chat_id, name) == rems[IndexOf(rems, chat_id, name)]

\* reminders[key] = {...}: an existing key keeps its place, a new one is last
DictSet(rems, rec) ==
    IF HasKey(rems, rec.chat_id, rec.name)
    THEN [rems EXCEPT ![IndexOf(rems, rec.chat_id, rec.name)] = rec]
    ELSE Append(rems, rec)

\* del reminders[key]
DictDel(rems, chat_id, name) ==
    LET p == IndexOf(rems, chat_id, name)
    IN  SubSeq(rems, 1, p - 1) \o SubSeq(rems, p + 1, Len(rems))

Reminder(chat_id, name, time_str, accepted) ==
    [chat_id |-> chat_id, name |-> name, time_str |-> time_str,
     accepted |-> accepted]

\* ------------------------------------------------------------- scheduler
\* a job of IntervalTrigger(hours=1, start_date=start_date): start_date
\* stays with the trigger, next_run_time is the run the scheduler waits for
IntervalJob(chat_id, name, start_date) ==
    [id |-> JobId(chat_id, name), trigger |-> "interval",
     start_date |-> start_date, next_run_time |-> start_date,
     chat_id |-> chat_id, name |-> name]

\* a job of DateTrigger(run_date=run_time)
DateJob(chat_id, name, run_time) ==
    [id |-> RepeatJobId(chat_id, name, run_time), trigger |-> "date",
     start_date |-> run_time, next_run_time |-> run_time,
     chat_id |-> chat_id, name |-> name]

\* try: scheduler.remove_job(job_id) except Exception: pass
RemoveJob(jbs, id) == {j \in jbs : j.id # id}

\* scheduler.add_job(..., id=job_id, replace_existing=True)
AddJobReplacing(jbs, job) == RemoveJob(jbs, job.id) \cup {job}

\* a faulty Reschedule: the job registered before is not removed
RescheduleKeepingOld(jbs, chat_id, name, start_date) ==
    jbs \cup {IntervalJob(chat_id, name, start_date)}

\* the remove_job / add_job pair of the add and accepted branches and of
\* load_reminders
Reschedule(jbs, chat_id, name, start_date) ==
    AddJobReplacing(RemoveJob(jbs, JobId(chat_id, name)),
                    IntervalJob(chat_id, name, start_date))

\* ----------------------------------------------------------- persistence
FileOpen == [kind |-> "[", chat_id |-> 0, name |-> <<>>, time_str |-> <<>>,
             accepted |-> FALSE]
FileClose == [kind |-> "]", chat_id |-> 0, name |-> <<>>, time_str |-> <<>>,
              accepted |-> FALSE]
FileItem(r) == [kind |-> "item", chat_id |-> r.chat_id, name |-> r.name,
                time_str |-> r.time_str, accepted |-> r.accepted]

\* json.dump(to_save, f): the list of records, bracketed
Serialize(rems) ==
    <<FileOpen>> \o [i \in 1..Len(rems) |-> FileItem(rems[i])] \o <<FileClose>>

NoFile == [exists |-> FALSE, content |-> <<>>]

\* save_reminders(): open(SAVE_FILE, "w") empties the file, json.dump then
\* writes it; written < 0 is a complete write, otherwise the write stops
\* (IOError, or the process dies) after `written` tokens
SaveReminders(rems, written) ==
    IF written < 0
    THEN [exists |-> TRUE, content |-> Serialize(rems)]
    ELSE [exists |-> TRUE, content |-> SubSeq(Serialize(rems), 1, written)]

\* json.load(f) returns (no JSONDecodeError)
ParseOk(content) ==
    /\ Len(content) >= 2
    /\ content[1].kind = "["
    /\ content[Len(content)].kind = "]"
    /\ \A i \in 2..(Len(content) - 1) : content[i].kind = "item"

\* a faulty ParsedItems: `for item in data[1:]` skips the first record
ParsedItemsFromSecond(content) == SubSeq(content, 3, Len(content) - 1)

\* the list json.load(f) returns
ParsedItems(content) == SubSeq(content, 2, Len(content) - 1)

\* the for loop of load_reminders from item i on: the entry is stored, then
\* the time is parsed (an exception ends the loop), then the job is set
RECURSIVE LoadLoop(_, _, _, _, _)
LoadLoop(items, i, rems, jbs, now) ==
    IF i > Len(items)
    THEN [reminders |-> rems, jobs |-> jbs]
    ELSE LET item == items[i]
             rems2 == DictSet(rems, Reminder(item.chat_id, item.name,
                                             item.time_str, item.accepted))
         IN  IF ~TimeOk(item.time_str)
             THEN [reminders |-> rems2, jobs |-> jbs]
             ELSE LoadLoop(items, i + 1, rems2,
                           Reschedule(jbs, item.chat_id, item.name,
                                      FirstTime(now, item.time_str)),
                           now)

\* load_reminders() on a fresh process
LoadReminders(file, now) ==
    IF ~file.exists \/ ~ParseOk(file.content)
    THEN [reminders |-> <<>>, jobs |-> {}]
    ELSE LoadLoop(ParsedItems(file.content), 1, <<>>, {}, now)

\* ------------------------------------------------------------------- init
NoState == [action |-> "none", step |-> "none", name |-> <<>>]

Event(op, result) == [op |-> op, result |-> result]

NoAck == [set |-> FALSE, chat_id |-> 0, name |-> <<>>, at |-> 0, anchor |-> 0]

\* `acked` after an operation other than an acknowledgement on (chat_id, name)
Overtaken(chat_id, name) ==
    IF acked.set /\ acked.chat_id = chat_id /\ acked.name = name
    THEN NoAck
    ELSE acked

\* snapshots an earlier run of the program may have left behind
InitFiles ==
    {NoFile, SaveReminders(<<Reminder(1, NameA, T2230, FALSE)>>, 0 - 1)}

\* module level (lines 30-37) followed by main(): load_reminders()
Init ==
    /\ clock = StartMinute
    /\ disk \in InitFiles
    /\ reminders = LoadReminders(disk, clock).reminders
    /\ jobs = LoadReminders(disk, clock).jobs
    /\ user_states = [c \in Owners |-> NoState]
    /\ inflight = <<>>
    /\ nops = 0
    /\ last = Event("start", "ok")
    /\ acked = NoAck

\* ------------------------------------------------------- handle_callback
\* data == "add"
CallbackAdd(chat_id) ==
    /\ nops < MaxOps
    /\ nops' = nops + 1
    /\ user_states' = [user_states EXCEPT ![chat_id] =
           [action |-> "add", step |-> "waiting_for_name", name |-> <<>>]]
    /\ last' = Event("add", "ok")
    /\ UNCHANGED <<clock, reminders, jobs, disk, inflight, acked>>

\* data == "delete"
CallbackDelete(chat_id) ==
    /\ nops < MaxOps
    /\ nops' = nops + 1
    /\ user_states' = [user_states EXCEPT ![chat_id] =
           IF \E i \in 1..Len(reminders) : reminders[i].chat_id = chat_id
           THEN [action |-> "delete", step |-> "waiting_for_name",
                 name |-> <<>>]
           ELSE NoState]
    /\ last' = Event("delete", "ok")
    /\ UNCHANGED <<clock, reminders, jobs, disk, inflight, acked>>

\* data == "cancel"
CallbackCancel(chat_id) ==
    /\ nops < MaxOps
    /\ nops' = nops + 1
    /\ user_states' = [user_states EXCEPT ![chat_id] = NoState]
    /\ last' = Event("cancel", "ok")
    /\ UNCHANGED <<clock, reminders, jobs, disk, inflight, acked>>

\* data.startswith("delvitamin|"); an exception of save_reminders leaves the
\* handler before user_states.pop
CallbackDelVitamin(chat_id, name, written) ==
    /\ nops < MaxOps
    /\ nops' = nops + 1
    /\ jobs' = RemoveJob(jobs, JobId(chat_id, name))
    /\ IF HasKey(reminders, chat_id, name)
       THEN /\ reminders' = DictDel(reminders, chat_id, name)
            /\ written < Len(Serialize(reminders'))
            /\ disk' = SaveReminders(reminders', written)
            /\ user_states' = IF written < 0
                              THEN [user_states EXCEPT ![chat_id] = NoState]
                              ELSE user_states
            /\ last' = Event("delvitamin",
                             IF written < 0 THEN "deleted" ELSE "save_failed")
            /\ acked' = Overtaken(chat_id, name)
       ELSE /\ written < 0
            /\ user_states' = [user_states EXCEPT ![chat_id] = NoState]
            /\ last' = Event("delvitamin", "not_found")
            /\ UNCHANGED <<reminders, disk, acked>>
    /\ UNCHANGED <<clock, inflight>>

\* a faulty acknowledgement: the record is stored with accepted True
AcceptMarking(rec, written, op) ==
    /\ reminders' = DictSet(reminders, [rec EXCEPT !.accepted = TRUE])
    /\ jobs' = Reschedule(jobs, rec.chat_id, rec.name,
                          NextTime(clock, rec.time_str))
    /\ written < Len(Serialize(reminders'))
    /\ disk' = SaveReminders(reminders', written)
    /\ last' = Event(op, IF written < 0 THEN "accepted" ELSE "save_failed")
    /\ acked' = [set |-> TRUE, chat_id |-> rec.chat_id, name |-> rec.name,
                 at |-> clock, anchor |-> NextTime(clock, rec.time_str)]

\* the body shared by the accepted branch (lines 191-209) and the text
\* acknowledgement (lines 258-276), for the stored record rec
Accept(rec, written, op) ==
    /\ reminders' = DictSet(reminders, [rec EXCEPT !.accepted = FALSE])
    /\ jobs' = Reschedule(jobs, rec.chat_id, rec.name,
                          NextTime(clock, rec.time_str))
    /\ written < Len(Serialize(reminders'))
    /\ disk' = SaveReminders(reminders', written)
    /\ last' = Event(op, IF written < 0 THEN "accepted" ELSE "save_failed")
    /\ acked' = [set |-> TRUE, chat_id |-> rec.chat_id, name |-> rec.name,
                 at |-> clock, anchor |-> NextTime(clock, rec.time_str)]

\* data.startswith("accepted|")
CallbackAccepted(chat_id, name, written) ==
    /\ nops < MaxOps
    /\ nops' = nops + 1
    /\ IF HasKey(reminders, chat_id, name)
       THEN Accept(Get(reminders, chat_id, name), written, "accepted")
       ELSE /\ written < 0
            /\ last' = Event("accepted", "not_found")
            /\ UNCHANGED <<reminders, jobs, disk, acked>>
    /\ UNCHANGED <<clock, user_states, inflight>>

\* data.startswith("repeat|"), data = f"repeat|{name}|{delay}".  add_job with
\* replace_existing=False raises ConflictingIdError when the id is taken.
\* datetime.now() has microsecond resolution, so two runs of the branch never
\* compute the same run_time: a second run for the same key, minute and delay
\* is not taken.
CallbackRepeat(chat_id, name, delay) ==
    /\ nops < MaxOps
    /\ nops' = nops + 1
    /\ IF ~IsInt(<<delay>>)
       THEN /\ last' = Event("repeat", "invalid_delay")
            /\ UNCHANGED <<jobs, acked>>
       ELSE IF ~HasKey(reminders, chat_id, name)
       THEN /\ last' = Event("repeat", "not_found")
            /\ UNCHANGED <<jobs, acked>>
       ELSE LET removed == RemoveJob(jobs, JobId(chat_id, name))
                run_time == clock + IntOfToken(delay)
                job == DateJob(chat_id, name, run_time)
            IN  /\ job \notin removed
                /\ acked' = Overtaken(chat_id, name)
                /\ IF \E j \in removed : j.id = job.id
                   THEN /\ jobs' = removed
                        /\ last' = Event("repeat", "conflict")
                   ELSE /\ jobs' = removed \cup {job}
                        /\ last' = Event("repeat", "snoozed")
    /\ UNCHANGED <<clock, reminders, disk, user_states, inflight>>

\* ----------------------------------------------------- handle_user_input
Texts == Names \cup {AckText(n) : n \in Names} \cup TimeStrs

\* the condition of line 257 for the stored record r
AckMatches(r, chat_id, text) ==
    r.chat_id = chat_id /\ Lower(text) = AckText(Lower(r.name))

\* the add branch at step waiting_for_time (lines 290-321); every exception
\* is caught and the conversational state is kept
AddReminder(chat_id, name, time_str, written) ==
    IF ~TimeOk(time_str)
    THEN /\ written < 0
         /\ last' = Event("create", "invalid_time")
         /\ UNCHANGED <<reminders, jobs, disk, user_states, acked>>
    ELSE /\ reminders' = DictSet(reminders,
                                 Reminder(chat_id, name, time_str, FALSE))
         /\ jobs' = Reschedule(jobs, chat_id, name, FirstTime(clock, time_str))
         /\ written < Len(Serialize(reminders'))
         /\ disk' = SaveReminders(reminders', written)
         /\ user_states' = IF written < 0
                           THEN [user_states EXCEPT ![chat_id] = NoState]
                           ELSE user_states
         /\ last' = Event("create",
                          IF written < 0 THEN "created" ELSE "save_failed")
         /\ acked' = Overtaken(chat_id, name)

\* the delete branch (lines 323-339)
DeleteByName(chat_id, name, written) ==
    /\ jobs' = RemoveJob(jobs, JobId(chat_id, name))
    /\ IF HasKey(reminders, chat_id, name)
       THEN /\ reminders' = DictDel(reminders, chat_id, name)
            /\ written < Len(Serialize(reminders'))
            /\ disk' = SaveReminders(reminders', written)
            /\ user_states' = IF written < 0
                              THEN [user_states EXCEPT ![chat_id] = NoState]
                              ELSE user_states
            /\ last' = Event("delete_text",
                             IF written < 0 THEN "deleted" ELSE "save_failed")
            /\ acked' = Overtaken(chat_id, name)
       ELSE /\ written < 0
            /\ user_states' = [user_states EXCEPT ![chat_id] = NoState]
            /\ last' = Event("delete_text", "not_found")
            /\ UNCHANGED <<reminders, disk, acked>>

\* handle_user_input(update) for a message `text` in chat chat_id.  A name is
\* one of Names: the model does not take a message that would store another.
UserInput(chat_id, text, written) ==
    /\ nops < MaxOps
    /\ nops' = nops + 1
    /\ LET state == user_states[chat_id]
           hits == {i \in 1..Len(reminders) :
                        AckMatches(reminders[i], chat_id, text)}
       IN  IF hits # {}
           THEN /\ Accept(reminders[CHOOSE i \in hits :
                                        \A j \in hits : i <= j],
                          written, "accepted_text")
                /\ UNCHANGED user_states
           ELSE IF state.action = "none"
           THEN /\ written < 0
                /\ last' = Event("text", "ignored")
                /\ UNCHANGED <<reminders, jobs, disk, user_states, acked>>
           ELSE IF state.action = "add" /\ state.step = "waiting_for_name"
           THEN /\ written < 0
                /\ text \in Names
                /\ user_states' = [user_states EXCEPT ![chat_id] =
                       [action |-> "add", step |-> "waiting_for_time",
                        name |-> text]]
                /\ last' = Event("name", "ok")
                /\ UNCHANGED <<reminders, jobs, disk, acked>>
           ELSE IF state.action = "add"
           THEN AddReminder(chat_id, state.name, text, written)
           ELSE DeleteByName(chat_id, text, written)
    /\ UNCHANGED <<clock, inflight>>

\* ---------------------------------------------------------------- restart
\* the process ends and is started again: the job table, `reminders`,
\* `user_states` and the event loop's queue are lost, main() loads the file
Restart ==
    /\ nops < MaxOps
    /\ nops' = nops + 1
    /\ reminders' = LoadReminders(disk, clock).reminders
    /\ jobs' = LoadReminders(disk, clock).jobs
    /\ user_states' = [c \in Owners |-> NoState]
    /\ inflight' = <<>>
    /\ last' = Event("restart", "ok")
    /\ acked' = NoAck
    /\ UNCHANGED <<clock, disk>>

\* ------------------------------------------------------ scheduler thread
Due(j) == j.next_run_time <= clock

\* send_reminder_async(chat_id, name, bot_instance) as run_coroutine_threadsafe
\* hands it to the event loop: not started yet (stage "handed"); once it has
\* passed the look-up and waits in bot.send_message its stage is "sending"
Coroutine(chat_id, name, run_time, trigger) ==
    [chat_id |-> chat_id, name |-> name, run_time |-> run_time,
     trigger |-> trigger, stage |-> "handed"]

\* the scheduler runs job j at its run time: an interval job moves on by its
\* interval, a date job is finished; send_reminder_sync hands the coroutine
\* to the event loop, unless the run time is past the grace time (the run is
\* then logged as missed and skipped)
Fire(j) ==
    /\ j \in jobs
    /\ Due(j)
    /\ jobs' = IF j.trigger = "interval"
               THEN (jobs \ {j}) \cup
                    {[j EXCEPT !.next_run_time = j.next_run_time + Interval]}
               ELSE jobs \ {j}
    /\ IF clock - j.next_run_time > MisfireGrace
       THEN /\ inflight' = inflight
            /\ last' = Event("fire", "missed")
       ELSE /\ Len(inflight) < MaxInflight
            /\ inflight' = Append(inflight,
                   Coroutine(j.chat_id, j.name, j.next_run_time, j.trigger))
            /\ last' = Event("fire", "handed")
    /\ UNCHANGED <<clock, reminders, disk, user_states, nops, acked>>

\* ------------------------------------------------------------ event loop
\* the coroutines the event loop has not started yet, oldest first
Handed == {i \in 1..Len(inflight) : inflight[i].stage = "handed"}

\* the sequence without its i-th element
RemoveAt(seq, i) == SubSeq(seq, 1, i - 1) \o SubSeq(seq, i + 1, Len(seq))

\* a faulty send_reminder_async: bot.send_message is called without the
\* look-up of the reminder
SendReminderAsyncUngated ==
    /\ Handed # {}
    /\ LET i == CHOOSE h \in Handed : \A g \in Handed : h <= g
       IN  /\ inflight' = [inflight EXCEPT ![i].stage = "sending"]
           /\ last' = Event("send", "sending")
    /\ UNCHANGED <<clock, reminders, jobs, disk, user_states, nops, acked>>

\* send_reminder_async(chat_id, name, bot) of the oldest coroutine not yet
\* started, up to its first await: the look-up of lines 122-125 returns
\* False, or bot.send_message is called and the coroutine waits in it
SendReminderAsync ==
    /\ Handed # {}
    /\ LET i == CHOOSE h \in Handed : \A g \in Handed : h <= g
           co == inflight[i]
           suppressed ==
               \/ ~HasKey(reminders, co.chat_id, co.name)
               \/ Get(reminders, co.chat_id, co.name).accepted
       IN  IF suppressed
           THEN /\ inflight' = RemoveAt(inflight, i)
                /\ last' = Event("send", "suppressed")
           ELSE /\ inflight' = [inflight EXCEPT ![i].stage = "sending"]
                /\ last' = Event("send", "sending")
    /\ UNCHANGED <<clock, reminders, jobs, disk, user_states, nops, acked>>

\* the await of bot.send_message of the i-th coroutine ends; transport_ok:
\* the message was sent (otherwise the call raised, lines 133-135)
SendMessage(i, transport_ok) ==
    /\ i \in 1..Len(inflight)
    /\ inflight[i].stage = "sending"
    /\ inflight' = RemoveAt(inflight, i)
    /\ last' = Event("send", IF transport_ok THEN "sent" ELSE "failed")
    /\ UNCHANGED <<clock, reminders, jobs, disk, user_states, nops, acked>>

\* ------------------------------------------------------------------ clock
\* time passes up to the next run time of a job; the scheduler and the
\* event loop have nothing left to do at the present instant
Advance ==
    /\ jobs # {}
    /\ inflight = <<>>
    /\ \A j \in jobs : ~Due(j)
    /\ LET next == CHOOSE t \in {j.next_run_time : j \in jobs} :
                       \A j \in jobs : t <= j.next_run_time
       IN  /\ next <= MaxClock
           /\ clock' = next
    /\ last' = Event("advance", "ok")
    /\ UNCHANGED <<reminders, jobs, disk, user_states, inflight, nops, acked>>

\* ------------------------------------------------------------------- spec
Complete == 0 - 1

\* one step of the program; Written: how far a write of the file may get
Step(Written) ==
    \/ \E c \in Owners : CallbackAdd(c)
    \/ \E c \in Owners : CallbackDelete(c)
    \/ \E c \in Owners : CallbackCancel(c)
    \/ \E c \in Owners, n \in Names, w \in Written :
           CallbackDelVitamin(c, n, w)
    \/ \E c \in Owners, n \in Names, w \in Written :
           CallbackAccepted(c, n, w)
    \/ \E c \in Owners, n \in Names, d \in DelayStrs : CallbackRepeat(c, n, d)
    \/ \E c \in Owners, t \in Texts, w \in Written : UserInput(c, t, w)
    \/ Restart
    \/ \E j \in jobs : Fire(j)
    \/ SendReminderAsync
    \/ \E i \in 1..MaxInflight, ok \in BOOLEAN : SendMessage(i, ok)
    \/ Advance

\* every write of the file completes
Next == Step({Complete})

Spec == Init /\ [][Next]_vars

\* a write of the file may stop early: the disk is full, or the process is
\* killed (a Restart follows)
NextFault == Step({Complete} \cup (0..MaxWritten))

SpecFault == Init /\ [][NextFault]_vars

\* ------------------------------------------------------------ vocabulary
Keys == Owners \X Names

\* the primary jobs registered for (chat_id, name)
PrimaryJobs(jbs, chat_id, name) ==
    {j \in jbs : /\ j.id = JobId(chat_id, name)
                 /\ j.trigger = "interval"
                 /\ j.chat_id = chat_id
                 /\ j.name = name}

\* the secondary (snooze) jobs registered for (chat_id, name)
SecondaryJobs(jbs, chat_id, name) ==
    {j \in jbs : /\ j.trigger = "date"
                 /\ j.chat_id = chat_id
                 /\ j.name = name}

\* the jobs that deliver for (chat_id, name)
JobsFor(jbs, chat_id, name) ==
    {j \in jbs : j.chat_id = chat_id /\ j.name = name}

\* the (owner, name, time_of_day, acknowledged) tuples of a table
Tuples(rems) == {rems[i] : i \in 1..Len(rems)}

\* --------------------------------------------------------------- claims
\* C1: between operations, (owner, name) is in the Store if and only if a
\* primary job with the id derived from (owner, name) is registered.
C1_StoreIffPrimaryJob ==
    \A k \in Keys :
        HasKey(reminders, k[1], k[2]) <=> PrimaryJobs(jobs, k[1], k[2]) # {}

\* C2: Snooze(owner, name, d) with d > 0 on an existing reminder registers
\* exactly one new one-shot job at now + d and changes nothing else: the
\* primary job, the stored record and the file stay as they were.
C2_SnoozeAddsOneJobOnly ==
    [][\A k \in Keys, d \in DelayStrs :
         ( /\ CallbackRepeat(k[1], k[2], d)
           /\ HasKey(reminders, k[1], k[2])
           /\ IsInt(<<d>>)
           /\ IntOfToken(d) > 0 )
         => /\ DateJob(k[1], k[2], clock + IntOfToken(d)) \notin jobs
            /\ jobs' = jobs \cup {DateJob(k[1], k[2], clock + IntOfToken(d))}
            /\ reminders' = reminders
            /\ disk' = disk]_vars

\* C3: while a reminder exists a future firing is scheduled for it: there is
\* no state in which the reminder is stored and no job will fire for it.
C3_AlwaysScheduled ==
    \A k \in Keys :
        HasKey(reminders, k[1], k[2]) => JobsFor(jobs, k[1], k[2]) # {}

\* the delivery the i-th coroutine attempts for (chat_id, name) ends in this
\* step: the message is out, or the transport has failed
Delivers(i, chat_id, name) ==
    /\ last'.op = "send"
    /\ last'.result \in {"sent", "failed"}
    /\ i \in 1..Len(inflight)
    /\ inflight[i].chat_id = chat_id
    /\ inflight[i].name = name
    /\ \E ok \in BOOLEAN : SendMessage(i, ok)

\* C4: after Acknowledge(owner, name) no delivery for (owner, name) is
\* attempted by a job that fires after the acknowledgement and before the
\* recomputed anchor (tomorrow's date at time_of_day), jobs snoozed earlier
\* included.
C4_NoDeliveryBeforeAnchor ==
    [][\A k \in Keys, i \in 1..MaxInflight :
         ( /\ acked.set
           /\ acked.chat_id = k[1]
           /\ acked.name = k[2]
           /\ Delivers(i, k[1], k[2])
           /\ inflight[i].run_time > acked.at )
         => inflight[i].run_time >= acked.anchor]_vars

\* the step is Create(chat_id, name, time_str): the message time_str arrives
\* while the chat waits for the time of `name`
Creates(chat_id, name, time_str) ==
    /\ last'.op = "create"
    /\ user_states[chat_id] =
           [action |-> "add", step |-> "waiting_for_time", name |-> name]
    /\ UserInput(chat_id, time_str, Complete)

\* C5: after Create with a valid time the Store holds exactly one entry for
\* (owner, name), with acknowledged = false and the given time, and exactly
\* one primary job is registered for the key, also when the key existed.
C5_CreateLeavesOneEntryOneJob ==
    [][last'.op = "create" => \A k \in Keys, t \in TimeStrs :
         (Creates(k[1], k[2], t) /\ TimeOk(t))
         => /\ Cardinality({i \in 1..Len(reminders') :
                               Key(reminders'[i]) = k}) = 1
            /\ Get(reminders', k[1], k[2]) = Reminder(k[1], k[2], t, FALSE)
            /\ Cardinality({j \in jobs' : j.id = JobId(k[1], k[2])}) = 1
            /\ Cardinality(PrimaryJobs(jobs', k[1], k[2])) = 1
            /\ \A j \in PrimaryJobs(jobs', k[1], k[2]) :
                   j.next_run_time =
                       IF CombineToday(clock, t) >= clock
                       THEN CombineToday(clock, t)
                       ELSE CombineToday(clock, t) + DayLen]_vars

\* C5 witness: a key that was stored with 22:30 when the program started is
\* created again with 01:00, after the clock has reached its first run time
C5_Witness ==
    /\ last = Event("create", "created")
    /\ nops = 3
    /\ clock > StartMinute
    /\ reminders = <<Reminder(1, NameA, T0100, FALSE)>>
    /\ Cardinality(jobs) = 1

\* the step is Delete(chat_id, name), by button or by typed name
Deletes(chat_id, name) ==
    \/ /\ last'.op = "delvitamin"
       /\ CallbackDelVitamin(chat_id, name, Complete)
    \/ /\ last'.op = "delete_text"
       /\ user_states[chat_id].action = "delete"
       /\ UserInput(chat_id, name, Complete)

\* C6: after Delete on an existing reminder the Store has no entry for the
\* key, the file is written without it, and no job of the reminder remains
\* registered, primary or secondary.
C6_DeleteRemovesEntryAndJobs ==
    [][\A k \in Keys :
         (Deletes(k[1], k[2]) /\ HasKey(reminders, k[1], k[2]))
         => /\ ~HasKey(reminders', k[1], k[2])
            /\ disk' = SaveReminders(reminders', Complete)
            /\ JobsFor(jobs', k[1], k[2]) = {}]_vars

\* C7: Acknowledge, Snooze or Delete on a key that is not in the Store
\* reports not-found and changes neither the Store, nor the registered jobs,
\* nor the file.
C7_NotFoundChangesNothing ==
    [][\A k \in Keys :
         ( /\ ~HasKey(reminders, k[1], k[2])
           /\ \/ CallbackAccepted(k[1], k[2], Complete)
              \/ \E d \in DelayStrs :
                     IsInt(<<d>>) /\ CallbackRepeat(k[1], k[2], d)
              \/ Deletes(k[1], k[2]) )
         => /\ last'.result = "not_found"
            /\ reminders' = reminders
            /\ jobs' = jobs
            /\ disk' = disk]_vars

\* C8: Snooze on an existing reminder with a delay that is zero, negative or
\* no integer fails with InvalidDelay before any mutation: no job is added,
\* the primary job stays, the Store is unchanged.
C8_InvalidDelayChangesNothing ==
    [][\A k \in Keys, d \in DelayStrs :
         ( /\ HasKey(reminders, k[1], k[2])
           /\ CallbackRepeat(k[1], k[2], d)
           /\ (IsInt(<<d>>) => IntOfToken(d) <= 0) )
         => /\ last'.result = "invalid_delay"
            /\ jobs' = jobs
            /\ reminders' = reminders]_vars

\* C9: a write of the file leaves on disk either the complete previous
\* snapshot or the complete new one, never a truncated one, also when the
\* write fails or the process dies in it.
C9_SaveIsAtomic ==
    [][disk' # disk => disk' = SaveReminders(reminders', Complete)]_vars

\* C10: a restart between operations recovers the Store exactly (every
\* operation that changed it has written the file), and every reloaded
\* reminder has exactly one registered primary job, anchored at today's
\* time_of_day, or at tomorrow's if that time has passed.
C10_RestartRecoversStore ==
    [][last'.op = "restart" =>
         ( Restart =>
             /\ Tuples(reminders') = Tuples(reminders)
             /\ Len(reminders') = Cardinality(Tuples(reminders'))
             /\ \A i \in 1..Len(reminders') :
                    LET r == reminders'[i]
                        today == CombineToday(clock, r.time_str)
                    IN  /\ Cardinality(PrimaryJobs(jobs', r.chat_id,
                                                   r.name)) = 1
                        /\ \A j \in PrimaryJobs(jobs', r.chat_id, r.name) :
                               j.next_run_time =
                                   IF today >= clock THEN today
                                   ELSE today + DayLen )]_vars

\* C10 witness: the program has restarted on the second day with two
\* reminders, one whose time of day is still to come that day and one whose
\* time of day has passed
C10_Witness ==
    /\ last = Event("restart", "ok")
    /\ clock > DayLen
    /\ Len(reminders) = 2
    /\ \E i, j \in 1..Len(reminders) :
           /\ CombineToday(clock, reminders[i].time_str) < clock
           /\ CombineToday(clock, reminders[j].time_str) > clock
    /\ Cardinality(jobs) = 2

\* C11: the dispatcher run for a fired job attempts a delivery only if the
\* Store, when the dispatcher looks, holds (owner, name) with acknowledged =
\* false; otherwise it is a no-op returning false.  No firing, delivered,
\* suppressed or failed, changes the Store, the file or a registration: the
\* hand-off leaves every other job as it is and the dispatcher leaves the
\* job table untouched.
C11_FiringGatedAndReadOnly ==
    [][last'.op \in {"fire", "send"} =>
         /\ reminders' = reminders
         /\ disk' = disk
         /\ last'.op = "fire" =>
                \E j \in jobs :
                    /\ Due(j)
                    /\ jobs \ {j} = jobs' \ {k \in jobs' : k.id = j.id}
                    /\ \A k \in jobs' : k.id = j.id =>
                           /\ j.trigger = "interval"
                           /\ k = [j EXCEPT !.next_run_time =
                                                j.next_run_time + Interval]
         /\ last'.op = "send" =>
                /\ jobs' = jobs
                /\ \E i \in 1..Len(inflight) :
                       LET co == inflight[i]
                           pending ==
                               /\ HasKey(reminders, co.chat_id, co.name)
                               /\ ~Get(reminders, co.chat_id,
                                       co.name).accepted
                       IN  \/ /\ co.stage = "handed"
                              /\ pending
                              /\ last'.result = "sending"
                              /\ inflight' =
                                     [inflight EXCEPT ![i].stage = "sending"]
                           \/ /\ co.stage = "handed"
                              /\ ~pending
                              /\ last'.result = "suppressed"
                              /\ inflight' = RemoveAt(inflight, i)
                           \/ /\ co.stage = "sending"
                              /\ last'.result \in {"sent", "failed"}
                              /\ inflight' = RemoveAt(inflight, i)]_vars

\* C11 witness: a job fired for a reminder that was deleted before the event
\* loop ran the dispatcher; the run was suppressed
C11_Witness ==
    /\ last = Event("send", "suppressed")
    /\ reminders = <<>>
    /\ inflight = <<>>
    /\ disk = SaveReminders(<<>>, Complete)

\* the jobs registered under the primary id of (chat_id, name)
JobsWithPrimaryId(jbs, chat_id, name) ==
    {j \in jbs : j.id = JobId(chat_id, name)}

\* C12: however the Create, Delete and Acknowledge handlers of a key and
\* the firings of the scheduler follow each other, no state has more than
\* one job under the primary id of a key (so at most one primary job), and
\* every replacement by Create or Acknowledge is a removal of the job
\* registered under the id followed by the registration of the new job.
C12_AtMostOnePrimaryJob ==
    /\ [](\A k \in Keys :
            /\ Cardinality(JobsWithPrimaryId(jobs, k[1], k[2])) <= 1
            /\ Cardinality(PrimaryJobs(jobs, k[1], k[2])) <= 1)
    /\ [][last'.result \in {"created", "accepted"} =>
            \E k \in Keys :
                LET removed == RemoveJob(jobs, JobId(k[1], k[2]))
                IN  /\ JobsWithPrimaryId(removed, k[1], k[2]) = {}
                    /\ \E j \in PrimaryJobs(jobs', k[1], k[2]) :
                           /\ j \notin removed
                           /\ jobs' = removed \cup {j}]_vars

\* C12 witness: the first handler to run acknowledged the reminder loaded at
\* the start, whose primary job was registered; the job anchored at the next
\* day is the only job
C12_Witness ==
    /\ last = Event("accepted", "accepted")
    /\ nops = 1
    /\ reminders = <<Reminder(1, NameA, T2230, FALSE)>>
    /\ jobs = {IntervalJob(1, NameA, NextTime(clock, T2230))}

\* C13: Create with a time whose hour is outside 0-23 (25:00), whose minute
\* is outside 0-59 (22:61) or that is not of the form H:M (2230) is aborted
\* before any mutation: the Store, the job table and the file stay as they
\* were.
C13_InvalidTimeChangesNothing ==
    [][last'.op = "create" => \A k \in Keys, t \in {T2500, T2261, TNoColon} :
         Creates(k[1], k[2], t)
         => /\ reminders' = reminders
            /\ jobs' = jobs
            /\ disk' = disk]_vars

\* C13 witness: the stored key (1, A) was created again with an invalid
\* time; the record and its job are those loaded at the start
C13_Witness ==
    /\ last = Event("create", "invalid_time")
    /\ user_states[1] =
           [action |-> "add", step |-> "waiting_for_time", name |-> NameA]
    /\ reminders = <<Reminder(1, NameA, T2230, FALSE)>>
    /\ PrimaryJobs(jobs, 1, NameA) # {}
    /\ disk = SaveReminders(reminders, Complete)

\* C14: the primary job Create registers at `now` for T is anchored at
\* today's T when that is at or after now and at tomorrow's T otherwise, and
\* a primary job fires exactly at anchor + k hours, k = 0, 1, 2, ...: every
\* firing is handed to the dispatcher at such an instant, never before the
\* anchor, and no such instant passes without the firing while the job is
\* registered.
C14_AnchoredHourlyFirings ==
    /\ [](\A j \in jobs : j.trigger = "interval" =>
            /\ j.next_run_time >= clock
            /\ j.next_run_time >= j.start_date
            /\ (j.next_run_time - j.start_date) % Interval = 0)
    /\ [][last'.op \in {"create", "fire"} =>
            /\ last'.op = "create" => \A k \in Keys, t \in TimeStrs :
                   (Creates(k[1], k[2], t) /\ TimeOk(t))
                   => LET today == CombineToday(clock, t)
                          anchor == IF today >= clock THEN today
                                    ELSE today + DayLen
                      IN  \E j \in jobs' :
                              /\ j.id = JobId(k[1], k[2])
                              /\ j.trigger = "interval"
                              /\ j.start_date = anchor
                              /\ j.next_run_time = anchor
            /\ last'.op = "fire" => \A j \in jobs :
                   (j.trigger = "interval" /\ j \notin jobs')
                   => /\ clock = j.next_run_time
                      /\ last'.result = "handed"
                      /\ inflight' = Append(inflight,
                             Coroutine(j.chat_id, j.name, j.next_run_time,
                                       "interval"))
                      /\ jobs' = (jobs \ {j}) \cup
                             {[j EXCEPT !.next_run_time =
                                            j.next_run_time + Interval]}]_vars

\* C14 witness: chat 2 created a reminder for 01:00 at 22:00 of day 0; its
\* job, anchored at 01:00 of day 1, has fired at the anchor and an hour
\* later
C14_Witness ==
    /\ last = Event("fire", "handed")
    /\ nops = 3
    /\ HasKey(reminders, 2, NameA)
    /\ \E j \in PrimaryJobs(jobs, 2, NameA) :
           /\ j.start_date = DayLen + MinuteOfDay(T0100)
           /\ j.next_run_time = j.start_date + 2 * Interval
    /\ clock = DayLen + MinuteOfDay(T0100) + Interval

\* C15: Acknowledge at time t on a stored reminder, by the button or by the
\* text the handler resolves to it, leaves under the key's id exactly the
\* hourly job anchored at (date of t + 1 day) at the stored time of day,
\* whether or not today's firing has happened, leaves the record with
\* acknowledged = false and its time of day, touches no other record and
\* no job under another id, and writes the file.
C15_AcknowledgeRearmsNextDay ==
    [][last'.result = "accepted" =>
         LET Rearmed(rec) ==
                 LET c == rec.chat_id
                     n == rec.name
                     anchor == ((clock \div DayLen) + 1) * DayLen
                                   + MinuteOfDay(rec.time_str)
                 IN  /\ JobsWithPrimaryId(jobs', c, n) =
                            {IntervalJob(c, n, anchor)}
                     /\ jobs' \ JobsWithPrimaryId(jobs', c, n) =
                            jobs \ JobsWithPrimaryId(jobs, c, n)
                     /\ Len(reminders') = Len(reminders)
                     /\ \A i \in 1..Len(reminders) :
                            reminders'[i] =
                                IF Key(reminders[i]) = <<c, n>>
                                THEN Reminder(c, n, rec.time_str, FALSE)
                                ELSE reminders[i]
                     /\ disk' = SaveReminders(reminders', Complete)
         IN  /\ \A k \in Keys :
                    ( /\ last'.op = "accepted"
                      /\ CallbackAccepted(k[1], k[2], Complete) )
                    => /\ HasKey(reminders, k[1], k[2])
                       /\ Rearmed(Get(reminders, k[1], k[2]))
             /\ \A c \in Owners, text \in Texts :
                    ( /\ last'.op = "accepted_text"
                      /\ UserInput(c, text, Complete) )
                    => \E i \in 1..Len(reminders) :
                           /\ AckMatches(reminders[i], c, text)
                           /\ Rearmed(reminders[i])]_vars

\* C15 witness: the reminder for 22:30 was acknowledged by text at 23:30 of
\* day 0, after its firings of 22:30 and 23:30; its job is anchored at 22:30
\* of day 1
C15_Witness ==
    /\ last = Event("accepted_text", "accepted")
    /\ clock = MinuteOfDay(T2230) + Interval
    /\ reminders = <<Reminder(1, NameA, T2230, FALSE)>>
    /\ jobs = {IntervalJob(1, NameA, DayLen + MinuteOfDay(T2230))}
    /\ disk = SaveReminders(reminders, Complete)

\* C16: job ids are free of collisions: the primary id of a key is the id of
\* no job of another reminder, primary or snooze, so Create, Delete,
\* Acknowledge or Snooze on one key (a key whose name spells
\* <other name>_repeat_<timestamp> included) never cancels or replaces a job
\* of another reminder.
C16_OperationsSpareOtherJobs ==
    [][\A k \in Keys :
         ( \/ Deletes(k[1], k[2])
           \/ \E t \in TimeStrs : Creates(k[1], k[2], t)
           \/ CallbackAccepted(k[1], k[2], Complete)
           \/ \E d \in DelayStrs : CallbackRepeat(k[1], k[2], d) )
         => \A j \in jobs : <<j.chat_id, j.name>> # k => j \in jobs']_vars

\* C17: started from no file or from a file the program wrote, every stored
\* reminder has acknowledged = false in every state between operations, and
\* so has every record of the file.
C17_NeverAcknowledgedAtRest ==
    /\ \A i \in 1..Len(reminders) : reminders[i].accepted = FALSE
    /\ \A i \in 1..Len(disk.content) : disk.content[i].accepted = FALSE

\* C17 witness: a firing was handed to the event loop, the reminder was
\* acknowledged, and the dispatcher, finding acknowledged = false, sent the
\* message
C17_Witness ==
    /\ last = Event("send", "sent")
    /\ acked.set
    /\ acked.at = clock
    /\ HasKey(reminders, acked.chat_id, acked.name)
    /\ Get(reminders, acked.chat_id, acked.name).accepted = FALSE
    /\ disk = SaveReminders(reminders, Complete)

\* C18: once Delete of a key has completed, no notification for the key is
\* delivered until the key is created again, whatever the event loop and the
\* scheduler still hold for it.  A key leaves the Store only by a completed
\* Delete and enters it only by Create (the file a restart loads names no
\* key the Store lacks), so the key of a coroutine that is not in the Store
\* is a key deleted and not created again: no delivery ends for such a key.
C18_NoDeliveryAfterDelete ==
    /\ [](\A i \in 1..Len(disk.content) :
            disk.content[i].kind = "item" =>
                HasKey(reminders, disk.content[i].chat_id,
                       disk.content[i].name))
    /\ [][\A k \in Keys :
            /\ (Deletes(k[1], k[2]) /\ last'.result = "deleted")
               => ~HasKey(reminders', k[1], k[2])
            /\ (~HasKey(reminders, k[1], k[2]) /\ HasKey(reminders', k[1], k[2]))
               => \E t \in TimeStrs : Creates(k[1], k[2], t)
            /\ (HasKey(reminders, k[1], k[2]) /\ ~HasKey(reminders', k[1], k[2]))
               => (Deletes(k[1], k[2]) /\ last'.result = "deleted")
            /\ \A i \in 1..MaxInflight :
                   Delivers(i, k[1], k[2]) => HasKey(reminders, k[1], k[2])]_vars

\* C18, amended: once Delete of a key has completed, no dispatcher run that
\* looks the reminder up before the key is created again sends a message: a
\* coroutine handed before the Delete and not yet started, and a job still
\* registered for the key, find the reminder absent.  (A coroutine that had
\* passed the look-up and was waiting in bot.send_message when Delete ran
\* still delivers its message.)
C18_NoSendStartsAfterDelete ==
    /\ [](\A i \in 1..Len(disk.content) :
            disk.content[i].kind = "item" =>
                HasKey(reminders, disk.content[i].chat_id,
                       disk.content[i].name))
    /\ [][\A k \in Keys :
            /\ (Deletes(k[1], k[2]) /\ last'.result = "deleted")
               => ~HasKey(reminders', k[1], k[2])
            /\ (~HasKey(reminders, k[1], k[2]) /\ HasKey(reminders', k[1], k[2]))
               => \E t \in TimeStrs : Creates(k[1], k[2], t)
            /\ (HasKey(reminders, k[1], k[2]) /\ ~HasKey(reminders', k[1], k[2]))
               => (Deletes(k[1], k[2]) /\ last'.result = "deleted")
            /\ \A i \in 1..Len(inflight) :
                   ( /\ last'.op = "send"
                     /\ inflight[i].chat_id = k[1]
                     /\ inflight[i].name = k[2]
                     /\ inflight[i].stage = "handed"
                     /\ ~HasKey(reminders, k[1], k[2]) )
                   => inflight' # [inflight EXCEPT ![i].stage = "sending"]]_vars

\* C18 witness: the reminder was snoozed and then deleted; its snooze job,
\* which Delete left registered, fired at 22:15 and the dispatcher, finding
\* no reminder, sent nothing
C18_Witness ==
    /\ last = Event("send", "suppressed")
    /\ clock = StartMinute + 15
    /\ nops = 2
    /\ ~HasKey(reminders, 1, NameA)
    /\ jobs = {}
    /\ disk = SaveReminders(<<>>, Complete)

\* C19: the duplicated entry points are equivalent on core state.  For every
\* key, stored or not, and the same clock, an acknowledgement by the button
\* and one by the text "<name> prinyal" leave the same Store, jobs and file,
\* and so do a Delete by the button and one by the typed name: each pair of
\* steps is held against the one outcome the state determines for the key.
C19_EntryPointsEquivalent ==
    [][\A k \in Keys :
         LET c == k[1]
             n == k[2]
             Acknowledged ==
                 IF HasKey(reminders, c, n)
                 THEN LET rec == Get(reminders, c, n)
                      IN  /\ reminders' =
                                 DictSet(reminders,
                                         [rec EXCEPT !.accepted = FALSE])
                          /\ jobs' = Reschedule(jobs, c, n,
                                                NextTime(clock, rec.time_str))
                          /\ disk' = SaveReminders(reminders', Complete)
                 ELSE /\ reminders' = reminders
                      /\ jobs' = jobs
                      /\ disk' = disk
             Deleted ==
                 /\ jobs' = RemoveJob(jobs, JobId(c, n))
                 /\ IF HasKey(reminders, c, n)
                    THEN /\ reminders' = DictDel(reminders, c, n)
                         /\ disk' = SaveReminders(reminders', Complete)
                    ELSE /\ reminders' = reminders
                         /\ disk' = disk
         IN  /\ ( \/ CallbackAccepted(c, n, Complete)
                  \/ UserInput(c, AckText(n), Complete) ) => Acknowledged
             /\ Deletes(c, n) => Deleted]_vars

====
